---- MODULE Spec2Model ----
(***************************************************************************)
(* src/native/timer.c: long current_time_ms().                             *)
(*                                                                         *)
(* The function declares an automatic struct timespec, has clock_gettime   *)
(* fill it from CLOCK_REALTIME (ignoring the call's status), and returns   *)
(* ts.tv_sec * 1000 + ts.tv_nsec / 1000000.                                *)
(*                                                                         *)
(* Machine integers are modelled at their width: a long is a sequence of   *)
(* LongBytes bytes, least significant first, in two's complement (the LP64 *)
(* data model, on which time_t and long are both 64 bits wide).  The       *)
(* mathematical side of every property is stated on decimal numerals       *)
(* (sign and magnitude, base-1000 digits, most significant first), which   *)
(* share no arithmetic with the machine side.                              *)
(***************************************************************************)
EXTENDS Integers, Sequences

\* ------------------------------------------------------------------------
\* Machine integers
\* ------------------------------------------------------------------------

\* sizeof(long) on LP64; also sizeof(time_t).
LongBytes == 8

\* Mutant: a shift by ten bits in place of the multiplication by 1000.
ShiftByTen == 4 * 256

\* The literals of line 7.
Thousand == 1000

\* Mutant: a divisor one zero short.
HundredThousand == 100 * 1000

\* Mutant: the divisor of a conversion to microseconds.
PerMicrosecond == 10 * 100

Million == 1000000

\* Guard bytes used to compute a result exactly before checking that it fits.
Wide == LongBytes + 2

IsNeg(x) == x[Len(x)] >= 128

\* Sign extension (or truncation) of x to n bytes.
Ext(x, n) ==
    [i \in 1..n |-> IF i <= Len(x) THEN x[i] ELSE IF IsNeg(x) THEN 255 ELSE 0]

RECURSIVE MulFrom(_, _, _, _)
\* x * k modulo 256^Len(x), from byte i on with carry c.
MulFrom(x, k, i, c) ==
    IF i > Len(x) THEN <<>>
    ELSE LET p == x[i] * k + c
         IN  <<p % 256>> \o MulFrom(x, k, i + 1, p \div 256)

MulK(x, k) == MulFrom(x, k, 1, 0)

RECURSIVE AddFrom(_, _, _, _)
\* x + y modulo 256^Len(x), from byte i on with carry c.
AddFrom(x, y, i, c) ==
    IF i > Len(x) THEN <<>>
    ELSE LET s == x[i] + y[i] + c
         IN  <<s % 256>> \o AddFrom(x, y, i + 1, s \div 256)

Add(x, y) == AddFrom(x, y, 1, 0)

One(n) == [i \in 1..n |-> IF i = 1 THEN 1 ELSE 0]

Zero(n) == [i \in 1..n |-> 0]

\* Two's complement negation modulo 256^Len(x).
Neg(x) == Add([i \in 1..Len(x) |-> 255 - x[i]], One(Len(x)))

RECURSIVE UDivFrom(_, _, _, _)
\* Long division of the unsigned x by k, from byte i down, with remainder r:
\* the quotient's bytes i..1 (most significant first) and the final remainder.
UDivFrom(x, k, i, r) ==
    IF i = 0 THEN [q |-> <<>>, r |-> r]
    ELSE LET cur  == r * 256 + x[i]
             rest == UDivFrom(x, k, i - 1, cur % k)
         IN  [q |-> rest.q \o <<cur \div k>>, r |-> rest.r]

UDivK(x, k) == UDivFrom(x, k, Len(x), 0).q

\* C's signed division by a positive constant: truncation toward zero.
SDivK(x, k) == IF IsNeg(x) THEN Neg(UDivK(Neg(x), k)) ELSE UDivK(x, k)

\* Whether the Wide-byte value w is representable in n bytes.
Fits(w, n) == Ext(SubSeq(w, 1, n), Len(w)) = w

\* Signed comparison of two values of the same width.
RECURSIVE ULessFrom(_, _, _)
ULessFrom(x, y, i) ==
    IF i = 0 THEN FALSE
    ELSE IF x[i] # y[i] THEN x[i] < y[i]
    ELSE ULessFrom(x, y, i - 1)

SLess(x, y) ==
    IF IsNeg(x) # IsNeg(y) THEN IsNeg(x) ELSE ULessFrom(x, y, Len(x))

\* ------------------------------------------------------------------------
\* Decimal numerals
\* ------------------------------------------------------------------------

RECURSIVE UDec(_)
\* The base-1000 digits of the unsigned x, most significant first (0 is <<>>).
UDec(x) ==
    IF x = Zero(Len(x)) THEN <<>>
    ELSE LET d == UDivFrom(x, 1000, Len(x), 0) IN UDec(d.q) \o <<d.r>>

\* The numeral of the signed machine value x.
ToDec(x) ==
    IF IsNeg(x) THEN [neg |-> TRUE, mag |-> UDec(Neg(x))]
    ELSE [neg |-> FALSE, mag |-> UDec(x)]

RECURSIVE FromMag(_, _)
FromMag(d, n) ==
    IF d = <<>> THEN Zero(n)
    ELSE Add(MulK(FromMag(SubSeq(d, 1, Len(d) - 1), n), 1000),
             [i \in 1..n |-> IF i = 1 THEN d[Len(d)] % 256
                             ELSE IF i = 2 THEN d[Len(d)] \div 256 ELSE 0])

\* The machine value (LongBytes wide) of a numeral.
Lit(neg, d) == IF neg THEN Neg(FromMag(d, LongBytes)) ELSE FromMag(d, LongBytes)

\* ------------------------------------------------------------------------
\* Arithmetic on numerals (the mathematical integers of the properties)
\* ------------------------------------------------------------------------

RECURSIVE Strip(_)
\* A magnitude without its leading zero digits.
Strip(m) == IF m # <<>> /\ m[1] = 0 THEN Strip(Tail(m)) ELSE m

Front(m) == SubSeq(m, 1, Len(m) - 1)

Last(m) == m[Len(m)]

\* A magnitude padded with leading zeros to n digits.
Pad(m, n) == [i \in 1..n |-> IF i <= n - Len(m) THEN 0 ELSE m[i - (n - Len(m))]]

Max(a, b) == IF a >= b THEN a ELSE b

RECURSIVE MagLess(_, _)
\* m < n for two magnitudes of the same length.
MagLess(m, n) ==
    IF m = <<>> THEN FALSE
    ELSE IF m[1] # n[1] THEN m[1] < n[1]
    ELSE MagLess(Tail(m), Tail(n))

MLess(m, n) ==
    LET k == Max(Len(m), Len(n)) IN MagLess(Pad(m, k), Pad(n, k))

RECURSIVE MagAdd(_, _, _)
\* m + n + c for two magnitudes of the same length; one digit longer.
MagAdd(m, n, c) ==
    IF m = <<>> THEN <<c>>
    ELSE LET s == Last(m) + Last(n) + c
         IN  MagAdd(Front(m), Front(n), s \div 1000) \o <<s % 1000>>

RECURSIVE MagSub(_, _, _)
\* m - n - b for two magnitudes of the same length with m >= n + b.
MagSub(m, n, b) ==
    IF m = <<>> THEN <<>>
    ELSE LET s == Last(m) - Last(n) - b
         IN  MagSub(Front(m), Front(n), IF s < 0 THEN 1 ELSE 0)
                 \o <<IF s < 0 THEN s + 1000 ELSE s>>

MAdd(m, n) ==
    LET k == Max(Len(m), Len(n)) IN Strip(MagAdd(Pad(m, k), Pad(n, k), 0))

MSub(m, n) ==
    LET k == Max(Len(m), Len(n)) IN Strip(MagSub(Pad(m, k), Pad(n, k), 0))

Dec(neg, m) == [neg |-> neg /\ Strip(m) # <<>>, mag |-> Strip(m)]

DecAdd(a, b) ==
    IF a.neg = b.neg THEN Dec(a.neg, MAdd(a.mag, b.mag))
    ELSE IF MLess(a.mag, b.mag) THEN Dec(b.neg, MSub(b.mag, a.mag))
    ELSE Dec(a.neg, MSub(a.mag, b.mag))

DecLess(a, b) ==
    IF a.neg # b.neg THEN a.neg
    ELSE IF a.neg THEN MLess(b.mag, a.mag)
    ELSE MLess(a.mag, b.mag)

DecLeq(a, b) == ~DecLess(b, a)

\* a * 1000^k.
DecShift(a, k) == Dec(a.neg, a.mag \o [i \in 1..k |-> 0])

\* The magnitude of m div 1000^k, and whether the division is exact.
MagChop(m, k) == IF Len(m) <= k THEN <<>> ELSE SubSeq(m, 1, Len(m) - k)

MagExact(m, k) ==
    \A i \in 1..Len(m) : i > Len(m) - k => m[i] = 0

\* a div 1000^k, truncating toward zero.
DecTrunc(a, k) == Dec(a.neg, MagChop(a.mag, k))

\* floor(a / 1000^k).
DecFloor(a, k) ==
    IF a.neg /\ ~MagExact(a.mag, k)
    THEN Dec(TRUE, MAdd(MagChop(a.mag, k), <<1>>))
    ELSE Dec(a.neg, MagChop(a.mag, k))

MinLong == [neg |-> TRUE, mag |-> <<9, 223, 372, 36, 854, 775, 808>>]

MaxLong == [neg |-> FALSE, mag |-> <<9, 223, 372, 36, 854, 775, 807>>]

\* Whether the integer a is a value of a signed 64-bit type.
InLong(a) == DecLeq(MinLong, a) /\ DecLeq(a, MaxLong)

\* ------------------------------------------------------------------------
\* The program and its environment
\* ------------------------------------------------------------------------

\* Threads that may call current_time_ms.
NumThreads == 2

Threads == 1..NumThreads

\* struct timespec { time_t tv_sec; long tv_nsec; }
Timespec(sneg, s, nneg, n) == [sec |-> Lit(sneg, s), nsec |-> Lit(nneg, n)]

\* No timespec: a buffer that does not exist, a reading that was not taken.
NoTs == [sec |-> <<>>, nsec |-> <<>>]

\* Readings of CLOCK_REALTIME: the epoch and its neighbours, the present day
\* around a millisecond and a second boundary, instants before the epoch,
\* and the last instant a 64-bit nanosecond clock can hold.
RealtimeReadings ==
    { Timespec(TRUE,  <<1, 700, 0, 0>>, FALSE, <<1, 0, 0>>),
      Timespec(TRUE,  <<1>>,            FALSE, <<999, 999, 999>>),
      Timespec(FALSE, <<>>,             FALSE, <<>>),
      Timespec(FALSE, <<>>,             FALSE, <<999, 999>>),
      Timespec(FALSE, <<1, 700, 0, 0>>, FALSE, <<499, 999, 999>>),
      Timespec(FALSE, <<1, 700, 0, 0>>, FALSE, <<500, 0, 0>>),
      Timespec(FALSE, <<1, 700, 0, 0>>, FALSE, <<999, 999, 999>>),
      Timespec(FALSE, <<1, 700, 0, 1>>, FALSE, <<>>),
      Timespec(FALSE, <<9, 223, 372, 36>>, FALSE, <<854, 775, 807>>) }

\* Readings over the whole range of time_t, around the places where the
\* millisecond count leaves the range of a long, and just outside the range
\* of a 32-bit integer (-2^31 - 1 ms, 2^31 ms).
AnyTimeReadings ==
    { Timespec(TRUE,  <<9, 223, 372, 36, 854, 775, 808>>, FALSE, <<>>),
      Timespec(TRUE,  <<9, 223, 372, 36, 854, 776>>, FALSE, <<191, 999, 999>>),
      Timespec(TRUE,  <<9, 223, 372, 36, 854, 776>>, FALSE, <<192, 0, 0>>),
      Timespec(TRUE,  <<9, 223, 372, 36, 854, 775>>, FALSE, <<>>),
      Timespec(TRUE,  <<2, 147, 484>>,  FALSE, <<351, 0, 0>>),
      Timespec(FALSE, <<2, 147, 483>>,  FALSE, <<648, 0, 0>>),
      Timespec(FALSE, <<1, 700, 0, 0>>, FALSE, <<500, 0, 0>>),
      Timespec(FALSE, <<9, 223, 372, 36, 854, 775>>, FALSE, <<807, 999, 999>>),
      Timespec(FALSE, <<9, 223, 372, 36, 854, 775>>, FALSE, <<808, 0, 0>>),
      Timespec(FALSE, <<9, 223, 372, 36, 854, 776>>, FALSE, <<>>),
      Timespec(FALSE, <<9, 223, 372, 36, 854, 775, 807>>, FALSE, <<999, 999, 999>>) }

\* Readings of the present day, for the runs with several threads.
TodayReadings ==
    { Timespec(FALSE, <<1, 700, 0, 0>>, FALSE, <<500, 0, 0>>),
      Timespec(FALSE, <<1, 700, 0, 0>>, FALSE, <<999, 999, 999>>),
      Timespec(FALSE, <<1, 700, 0, 1>>, FALSE, <<>>) }

Readings(w) ==
    CASE w = "anytime" -> AnyTimeReadings
      [] w = "today"   -> TodayReadings
      [] OTHER         -> RealtimeReadings

\* What the automatic variable ts may hold before it is written: a stale
\* reading left on the stack, small negative values, and extreme values.
Indeterminate ==
    { Timespec(FALSE, <<1, 700, 0, 0>>, FALSE, <<500, 0, 0>>),
      Timespec(TRUE,  <<1>>,            TRUE,  <<1, 999, 999>>),
      Timespec(FALSE, <<9, 223, 372, 36, 854, 775, 807>>,
               TRUE,  <<9, 223, 372, 36, 854, 775, 808>>) }

\* a is an earlier instant than b.
TsLess(a, b) ==
    \/ SLess(a.sec, b.sec)
    \/ a.sec = b.sec /\ SLess(a.nsec, b.nsec)

\* No completed call.
NoCall == [ts |-> NoTs, sample |-> NoTs, ret |-> <<>>, ovf |-> FALSE,
           before |-> NoTs]

VARIABLES
    world,      \* which readings the clock delivers: "realtime", "today", "anytime"
    callers,    \* the threads that call the function
    testing,    \* whether a caller keeps two results and a reference reading
    clock,      \* the reading of CLOCK_REALTIME
    pc,         \* per thread: "idle", "L6" (before line 6), "L7" (before line 7)
    ts,         \* per buffer: the contents of struct timespec ts
    sample,     \* per thread: the reading its clock_gettime took (NoTs: it failed)
    errno,      \* per thread: errno
    before,     \* per thread: the caller's reference reading before the call
    adjusted,   \* per thread: the clock was set back since that reference was read
    last,       \* per thread: the last completed call
    prev,       \* per thread: the completed call before it
    aborted     \* the process was ended by an overflow trap

vars == <<world, callers, testing, clock, pc, ts, sample, errno, before,
          adjusted, last, prev, aborted>>

config == <<world, callers, testing>>

\* Mutant: ts declared static, one buffer for every call.
TsStatic(t) == 1

\* The buffer a call of thread t uses: ts has automatic storage, so every
\* call has its own.
TsOf(t) == t

\* Mutant: the return type is int, the value is cut to 32 bits.
AsInt(v) == Ext(SubSeq(v, 1, 4), Len(v))

\* The value of the return expression, converted to the return type long.
AsLong(v) == v

\* Mutant: the nanoseconds are rounded to the nearest millisecond.
CurrentTimeMsRounded(b) ==
    LET prod == MulK(Ext(b.sec, Wide), Thousand)
        quot == SDivK(Add(b.nsec, Lit(FALSE, <<500, 0>>)), Million)
        sum  == Add(Ext(SubSeq(prod, 1, LongBytes), Wide), Ext(quot, Wide))
    IN  [value |-> AsLong(SubSeq(sum, 1, LongBytes)),
         ovf   |-> ~Fits(prod, LongBytes) \/ ~Fits(sum, LongBytes)]

\* Mutant: the nanoseconds are left out.
CurrentTimeMsSeconds(b) ==
    LET prod == MulK(Ext(b.sec, Wide), Thousand)
    IN  [value |-> AsLong(SubSeq(prod, 1, LongBytes)),
         ovf   |-> ~Fits(prod, LongBytes)]

\* (ts.tv_sec * 1000) + (ts.tv_nsec / 1000000), evaluated in long: the value
\* modulo 2^64 and whether a step of the evaluation overflowed.
CurrentTimeMs(b) ==
    LET prod == MulK(Ext(b.sec, Wide), Thousand)
        quot == SDivK(b.nsec, Million)
        sum  == Add(Ext(SubSeq(prod, 1, LongBytes), Wide), Ext(quot, Wide))
    IN  [value |-> AsLong(SubSeq(sum, 1, LongBytes)),
         ovf   |-> ~Fits(prod, LongBytes) \/ ~Fits(sum, LongBytes)]

InitWith(w, c, h) ==
    /\ world = w
    /\ callers = c
    /\ testing = h
    /\ clock \in Readings(w)
    /\ pc = [t \in Threads |-> "idle"]
    /\ ts = [t \in Threads |-> NoTs]
    /\ sample = [t \in Threads |-> NoTs]
    /\ errno = [t \in Threads |-> "0"]
    /\ before = [t \in Threads |-> NoTs]
    /\ adjusted = [t \in Threads |-> FALSE]
    /\ last = [t \in Threads |-> NoCall]
    /\ prev = [t \in Threads |-> NoCall]
    /\ aborted = FALSE

\* One thread under test, a clock in its realtime range.
Init == InitWith("realtime", {1}, TRUE)

\* Time passes: the clock moves to a later reading.
Tick ==
    /\ ~aborted
    /\ \E r \in Readings(world) : TsLess(clock, r) /\ clock' = r
    /\ UNCHANGED <<config, pc, ts, sample, errno, before, adjusted, last,
                   prev, aborted>>

\* The clock is set back (settimeofday, an NTP step).
Adjust ==
    /\ ~aborted
    /\ \E r \in Readings(world) : TsLess(r, clock) /\ clock' = r
    /\ adjusted' = [t \in Threads |-> before[t] # NoTs]
    /\ UNCHANGED <<config, pc, ts, sample, errno, before, last, prev, aborted>>

\* Lines 4-5: the call is entered and ts is declared, not initialised.  A
\* testing caller first keeps its previous result, clears errno and reads
\* the clock.
Call(t) ==
    /\ ~aborted
    /\ pc[t] = "idle"
    /\ pc' = [pc EXCEPT ![t] = "L6"]
    /\ \E g \in Indeterminate : ts' = [ts EXCEPT ![TsOf(t)] = g]
    /\ prev' = [prev EXCEPT ![t] =
                    IF testing THEN [last[t] EXCEPT !.before = NoTs] ELSE NoCall]
    /\ errno' = [errno EXCEPT ![t] = IF testing THEN "0" ELSE @]
    /\ last' = [last EXCEPT ![t] = NoCall]
    /\ before' = [before EXCEPT ![t] = IF testing THEN clock ELSE NoTs]
    /\ adjusted' = [adjusted EXCEPT ![t] = FALSE]
    /\ UNCHANGED <<config, clock, sample, aborted>>

\* Mutant: the successful read clears errno.
ClockGettimeOkClearsErrno(t) ==
    /\ ~aborted
    /\ pc[t] = "L6"
    /\ pc' = [pc EXCEPT ![t] = "L7"]
    /\ ts' = [ts EXCEPT ![TsOf(t)] = clock]
    /\ sample' = [sample EXCEPT ![t] = clock]
    /\ errno' = [errno EXCEPT ![t] = "0"]
    /\ UNCHANGED <<config, clock, before, adjusted, last, prev, aborted>>

\* Line 6, clock_gettime succeeds: the reading is stored in ts.
ClockGettimeOk(t) ==
    /\ ~aborted
    /\ pc[t] = "L6"
    /\ pc' = [pc EXCEPT ![t] = "L7"]
    /\ ts' = [ts EXCEPT ![TsOf(t)] = clock]
    /\ sample' = [sample EXCEPT ![t] = clock]
    /\ UNCHANGED <<config, clock, errno, before, adjusted, last, prev, aborted>>

\* Line 6, clock_gettime fails: it returns -1 and sets errno, ts is not
\* written, and the function goes on, since it drops the status.
ClockGettimeFail(t) ==
    /\ ~aborted
    /\ pc[t] = "L6"
    /\ pc' = [pc EXCEPT ![t] = "L7"]
    /\ sample' = [sample EXCEPT ![t] = NoTs]
    /\ errno' = [errno EXCEPT ![t] = "EPERM"]
    /\ UNCHANGED <<config, clock, ts, before, adjusted, last, prev, aborted>>

\* Mutant: the status of clock_gettime is checked and -1 returned on failure.
ReturnChecked(t) ==
    /\ ~aborted
    /\ pc[t] = "L7"
    /\ pc' = [pc EXCEPT ![t] = "idle"]
    /\ LET r == CurrentTimeMs(ts[TsOf(t)])
       IN  last' = [last EXCEPT ![t] =
                       [ts |-> ts[TsOf(t)], sample |-> sample[t],
                        ret |-> IF sample[t] = NoTs THEN Lit(TRUE, <<1>>)
                                ELSE r.value,
                        ovf |-> r.ovf, before |-> before[t]]]
    /\ ts' = [ts EXCEPT ![TsOf(t)] = NoTs]
    /\ sample' = [sample EXCEPT ![t] = NoTs]
    /\ UNCHANGED <<config, clock, errno, before, adjusted, prev, aborted>>

\* Mutant: the result is clamped to the previous result of the thread.
ReturnClamped(t) ==
    /\ ~aborted
    /\ pc[t] = "L7"
    /\ pc' = [pc EXCEPT ![t] = "idle"]
    /\ LET r == CurrentTimeMs(ts[TsOf(t)])
       IN  last' = [last EXCEPT ![t] =
                       [ts |-> ts[TsOf(t)], sample |-> sample[t],
                        ret |-> IF prev[t] # NoCall /\ SLess(r.value, prev[t].ret)
                                THEN prev[t].ret ELSE r.value,
                        ovf |-> r.ovf, before |-> before[t]]]
    /\ ts' = [ts EXCEPT ![TsOf(t)] = NoTs]
    /\ sample' = [sample EXCEPT ![t] = NoTs]
    /\ UNCHANGED <<config, clock, errno, before, adjusted, prev, aborted>>

\* Line 7: the value is computed from ts and returned; ts ceases to exist.
\* Where the evaluation overflows, this is the build in which it wraps.
Return(t) ==
    /\ ~aborted
    /\ pc[t] = "L7"
    /\ pc' = [pc EXCEPT ![t] = "idle"]
    /\ LET r == CurrentTimeMs(ts[TsOf(t)])
       IN  last' = [last EXCEPT ![t] =
                       [ts |-> ts[TsOf(t)], sample |-> sample[t],
                        ret |-> r.value, ovf |-> r.ovf, before |-> before[t]]]
    /\ ts' = [ts EXCEPT ![TsOf(t)] = NoTs]
    /\ sample' = [sample EXCEPT ![t] = NoTs]
    /\ UNCHANGED <<config, clock, errno, before, adjusted, prev, aborted>>

\* Line 7 where the evaluation overflows, in a build that traps on signed
\* overflow: the process is ended.
Trap(t) ==
    /\ ~aborted
    /\ pc[t] = "L7"
    /\ CurrentTimeMs(ts[TsOf(t)]).ovf
    /\ aborted' = TRUE
    /\ UNCHANGED <<config, clock, pc, ts, sample, errno, before, adjusted,
                   last, prev>>

Next ==
    \/ Tick
    \/ Adjust
    \/ \E t \in callers : Call(t)
    \/ \E t \in callers : ClockGettimeOk(t)
    \/ \E t \in callers : ClockGettimeFail(t)
    \/ \E t \in callers : Return(t)
    \/ \E t \in callers : Trap(t)

Spec == Init /\ [][Next]_vars

\* Every thread calls, concurrently; callers keep only their last result.
InitThreads == InitWith("today", Threads, FALSE)

SpecThreads == InitThreads /\ [][Next]_vars

\* One thread, a clock that may deliver any value of time_t.
InitAnyTime == InitWith("anytime", {1}, TRUE)

SpecAnyTime == InitAnyTime /\ [][Next]_vars

\* ------------------------------------------------------------------------
\* The mathematical reading of a timespec
\* ------------------------------------------------------------------------

SecOf(b) == ToDec(b.sec)

NsOf(b) == ToDec(b.nsec)

\* 0 <= tv_nsec <= 999,999,999.
ValidNsec(b) == ~NsOf(b).neg /\ Len(NsOf(b).mag) <= 3

\* seconds * 1000 + nanoseconds div 1,000,000, the division truncating.
Millis(b) == DecAdd(DecShift(SecOf(b), 1), DecTrunc(NsOf(b), 2))

\* seconds * 10^9 + nanoseconds.
Nanos(b) == DecAdd(DecShift(SecOf(b), 3), NsOf(b))

Num(m) == [neg |-> FALSE, mag |-> m]

Minus(a) == Dec(~a.neg, a.mag)

\* The completed calls a caller holds results of.
Done(t) == {c \in {prev[t], last[t]} : c # NoCall}

\* The completed calls whose clock read succeeded.
Read(t) == {c \in Done(t) : c.sample # NoTs}

\* The reading of the concrete scenario and its result.
Scenario == Timespec(FALSE, <<1, 700, 0, 0>>, FALSE, <<500, 0, 0>>)

ScenarioMs == Num(<<1, 700, 0, 0, 500>>)

\* ------------------------------------------------------------------------
\* Claims
\* ------------------------------------------------------------------------

\* C1: for every reading (seconds, nanoseconds) the realtime clock delivers,
\* with 0 <= nanoseconds <= 999,999,999, the call returns exactly
\* seconds * 1000 + nanoseconds div 1,000,000; the reading
\* (1,700,000,000 s, 500,000,000 ns) yields 1700000000500.
C1_ReturnsMillis ==
    \A t \in Threads : \A c \in Read(t) :
        ValidNsec(c.sample) =>
            /\ ToDec(c.ret) = Millis(c.sample)
            /\ c.sample = Scenario => ToDec(c.ret) = ScenarioMs

C1_Witness ==
    /\ last[1].sample = Scenario
    /\ ToDec(last[1].ret) = ScenarioMs

C3_FloorOfMillis ==
    \A t \in Threads : \A c \in Read(t) :
        ValidNsec(c.sample) =>
            LET f == DecFloor(Nanos(c.sample), 2)
            IN  ToDec(c.ret) = f /\ Millis(c.sample) = f

\* One nanosecond before the epoch: -1 ms.
C3_Witness ==
    /\ last[1].sample = Timespec(TRUE, <<1>>, FALSE, <<999, 999, 999>>)
    /\ ToDec(last[1].ret) = [neg |-> TRUE, mag |-> <<1>>]

AtOrBefore(a, b) ==
    \/ DecLess(SecOf(a), SecOf(b))
    \/ SecOf(a) = SecOf(b) /\ DecLeq(NsOf(a), NsOf(b))

\* C5: two successive calls t1, t2 of a thread whose reads both succeed,
\* the second reading at or after the first, give t2 >= t1.
C5_MonotoneUnadjusted ==
    \A t \in Threads :
        /\ prev[t] # NoCall /\ prev[t].sample # NoTs
        /\ last[t] # NoCall /\ last[t].sample # NoTs
        /\ AtOrBefore(prev[t].sample, last[t].sample)
        => DecLeq(ToDec(prev[t].ret), ToDec(last[t].ret))

\* Across a second boundary: ...999 ms, then the next second.
C5_Witness ==
    /\ prev[1].sample = Timespec(FALSE, <<1, 700, 0, 0>>, FALSE, <<999, 999, 999>>)
    /\ last[1].sample = Timespec(FALSE, <<1, 700, 0, 1>>, FALSE, <<>>)
    /\ ~adjusted[1]
    /\ DecLess(ToDec(prev[1].ret), ToDec(last[1].ret))

\* A step of lines 6-7 of thread t's call.
CallStep(t) == pc[t] \in {"L6", "L7"} /\ pc'[t] # pc[t]

\* What belongs to thread u: its position, buffer, results and errno.
Own(u) == <<pc[u], ts[u], sample[u], errno[u], before[u], adjusted[u],
            last[u], prev[u]>>

C7_ThreadSafe ==
    \A t \in Threads :
        /\ pc[t] = "L7" /\ sample[t] # NoTs => ts[TsOf(t)] = sample[t]
        /\ \A c \in Read(t) : c.ts = c.sample /\ ToDec(c.ret) = Millis(c.sample)

\* Two calls in flight at once, holding different readings.
C7_Witness ==
    /\ pc[1] = "L7" /\ pc[2] = "L7"
    /\ sample[1] = Timespec(FALSE, <<1, 700, 0, 1>>, FALSE, <<>>)
    /\ sample[2] = Scenario

\* C8: monotonicity is not guaranteed: the function neither clamps nor
\* remembers its previous result, so whenever the clock is set back by at
\* least a millisecond between two successive calls, the later call returns
\* a strictly smaller value; the witness is such an execution.
C8_NotMonotone ==
    \A t \in Threads :
        /\ prev[t] # NoCall /\ prev[t].sample # NoTs
        /\ last[t] # NoCall /\ last[t].sample # NoTs
        /\ DecLeq(DecAdd(Nanos(last[t].sample), Num(<<1, 0, 0>>)),
                  Nanos(prev[t].sample))
        => DecLess(ToDec(last[t].ret), ToDec(prev[t].ret))

\* The clock was set back by half a second between two calls: t2 < t1.
C8_Witness ==
    /\ prev[1].sample = Timespec(FALSE, <<1, 700, 0, 1>>, FALSE, <<>>)
    /\ last[1].sample = Scenario
    /\ DecLess(ToDec(last[1].ret), ToDec(prev[1].ret))

\* C9: with the clock not adjusted between a reference reading taken before
\* the call and one taken after it, millis(before) <= result <=
\* millis(after); and the result is within 2000 ms of both when the two
\* references are less than 2000 ms apart.
C9_BetweenReferences ==
    \A t \in Threads :
        /\ pc[t] = "idle" /\ last[t] # NoCall /\ last[t].sample # NoTs
        /\ ~adjusted[t]
        => LET r == ToDec(last[t].ret)
               b == Millis(last[t].before)
               a == Millis(clock)
           IN  /\ DecLeq(b, r) /\ DecLeq(r, a)
               /\ DecLess(Nanos(clock),
                          DecAdd(Nanos(last[t].before), Num(<<2, 0, 0, 0>>)))
                  => /\ DecLeq(r, DecAdd(b, Num(<<2, 0>>)))
                     /\ DecLeq(a, DecAdd(r, Num(<<2, 0>>)))

\* The clock moved before the sample and after it, by less than a second.
C9_Witness ==
    /\ pc[1] = "idle" /\ ~adjusted[1]
    /\ last[1].before = Timespec(FALSE, <<1, 700, 0, 0>>, FALSE, <<499, 999, 999>>)
    /\ last[1].sample = Scenario
    /\ clock = Timespec(FALSE, <<1, 700, 0, 0>>, FALSE, <<999, 999, 999>>)

\* C10: the nanoseconds never carry into the seconds: for seconds >= 0 and
\* 0 <= nanoseconds <= 999,999,999 the result t has t div 1000 = seconds
\* and t mod 1000 = nanoseconds div 1,000,000, which is at most 999.
C10_NoCarry ==
    \A t \in Threads : \A c \in Read(t) :
        ValidNsec(c.sample) /\ ~SecOf(c.sample).neg =>
            LET r == ToDec(c.ret)
                q == DecTrunc(r, 1)
                m == DecAdd(r, Minus(DecShift(q, 1)))
            IN  /\ q = SecOf(c.sample)
                /\ m = DecTrunc(NsOf(c.sample), 2)
                /\ DecLeq(m, Num(<<999>>))

\* 999,999,999 ns contribute 999 ms.
C10_Witness ==
    /\ last[1].sample = Timespec(FALSE, <<1, 700, 0, 0>>, FALSE, <<999, 999, 999>>)
    /\ ToDec(last[1].ret) = Num(<<1, 700, 0, 0, 999>>)
====
